---- MODULE Spec2Model ----
(***************************************************************************)
(* Model of app/services/visit_counter.py: the consistent-hash ring        *)
(* (ConsistentHash) and the buffered, cached visit counter                 *)
(* (VisitCounterService).                                                  *)
(*                                                                         *)
(* Construction.  The file spells the constructors _init_ and _new_; they   *)
(* are modelled as the constructors they stand for, so Init is the state   *)
(* that VisitCounterService() and ConsistentHash(nodes) are written to     *)
(* build.                                                                  *)
(*                                                                         *)
(* Scheduling.  increment_visit, get_visit_count and _flush_buffer are     *)
(* coroutines whose only await is `await self._flush_buffer()`, and        *)
(* _flush_buffer itself contains no await (the redis client is the         *)
(* blocking one).  A coroutine that never suspends runs to completion      *)
(* before the event loop schedules another task, so concurrent callers     *)
(* interleave as whole calls: each call is one action.                     *)
(*                                                                         *)
(* Time.  time.time() is the variable now; it advances between calls       *)
(* (Tick) and is read as one value by all the time.time() calls of a call. *)
(*                                                                         *)
(* Store.  A backing store is a map from page to persisted count (a        *)
(* missing key reads as 0).  A GET either answers or raises; a pipeline    *)
(* of INCRBY either applies every command or raises having applied none.   *)
(***************************************************************************)
EXTENDS Integers, Sequences, FiniteSets, TLC

\* ------------------------------------------------------------------ bounds
\* virtual nodes per node of the rings of the model (the code's default is 100)
VirtualNodes == 2
\* _get_hash values are drawn from 0 .. HashSpace-1
HashSpace == 4
\* add_node calls whose entries the ring holds at once
MaxAdds == 3
\* number of calls (increment_visit, get_visit_count, _flush_buffer) of a run
MaxCalls == 5
\* number of calls of a run in which the ring changes as well
MaxTopologyCalls == 2
\* the clock stops at MaxTime
MaxTime == 30
\* the clock of the runs in which requests keep arriving stops at MaxLiveTime
MaxLiveTime == 60

\* --------------------------------------------------------------- constants
cache_ttl == 5
flush_interval == 30

\* the shard client pool self.redis_nodes / the keys of self._write_buffer,
\* in dict order
NodeOrder == <<"redis_7070", "redis_7071">>
Nodes == {NodeOrder[i] : i \in 1..Len(NodeOrder)}

Pages == {"home", "about"}
\* keys looked up on the ring: page ids, one of which is spelled like a
\* virtual node
RingKeys == {"home", "redis_7070_0"}
Hashes == 0 .. (HashSpace - 1)
\* the values time.time() takes in a run
TimePoints == {t \in {0, 4, 5, 30, 34, 60, 64} : t <= MaxTime}

\* f"{node}_{i}"
VirtualNodeName(node, i) == node \o "_" \o ToString(i)
VirtualNodeNames == {VirtualNodeName(n, i) : n \in Nodes, i \in 0 .. (VirtualNodes - 1)}
Names == VirtualNodeNames \cup RingKeys \cup Pages

VARIABLES
    hashOf,          \* _get_hash: md5 as a fixed function of the string
    hash_ring,       \* ConsistentHash.hash_ring: hash value -> node
    sorted_keys,     \* ConsistentHash.sorted_keys
    lookup,          \* outcome of the last ring call made on its own
    store,           \* contents of the backing stores: node -> page -> count
    cache,           \* VisitCounterService._cache
    write_buffer,    \* VisitCounterService._write_buffer
    last_flush_time, \* VisitCounterService.last_flush_time
    now,             \* time.time()
    last,            \* the last call of the service: arguments, locals, result
    issued,          \* increment_visit calls made so far, per page
    failed,          \* some store call has raised so far
    lastGet,         \* per page, the latest get_visit_count since its last increment
    registered       \* nodes added to the ring and not removed since

ringVars == <<hash_ring, sorted_keys>>
svcVars == <<store, cache, write_buffer, last_flush_time, last, issued, failed, lastGet>>
vars == <<hashOf, hash_ring, sorted_keys, lookup, store, cache, write_buffer,
          last_flush_time, now, last, issued, failed, lastGet, registered>>

\* ------------------------------------------------------- ConsistentHash
\* _get_hash(key)
GetHash(h, key) == h[key]

\* {}
EmptyDict == [x \in {} |-> 0]
\* a dict as a function: d with key k removed
DictDel(d, k) == [x \in (DOMAIN d) \ {k} |-> d[x]]
\* a dict as a function: d[k] = v
DictSet(d, k, v) == [x \in (DOMAIN d) \cup {k} |-> IF x = k THEN v ELSE d[x]]

\* a list left in insertion order
Unsorted(s) == s
\* list.sort()
Sorted(s) == SortSeq(s, LAMBDA a, b : a < b)

\* list.remove(x): drops the first occurrence of x (x is in s)
RECURSIVE ListRemove(_, _)
ListRemove(s, x) ==
    IF s = <<>> THEN <<>>
    ELSE IF Head(s) = x THEN Tail(s)
    ELSE <<Head(s)>> \o ListRemove(Tail(s), x)

\* bisect.bisect_left(a, x)
RECURSIVE BisectLeftLoop(_, _, _, _)
BisectLeftLoop(a, x, lo, hi) ==
    IF lo < hi
    THEN LET mid == (lo + hi) \div 2
         IN  IF a[mid + 1] < x
             THEN BisectLeftLoop(a, x, mid + 1, hi)
             ELSE BisectLeftLoop(a, x, lo, mid)
    ELSE lo
BisectLeft(a, x) == BisectLeftLoop(a, x, 0, Len(a))
\* bisect.bisect(a, x) = bisect_right: binary search on lo, hi
RECURSIVE BisectLoop(_, _, _, _)
BisectLoop(a, x, lo, hi) ==
    IF lo < hi
    THEN LET mid == (lo + hi) \div 2
         IN  IF x < a[mid + 1]
             THEN BisectLoop(a, x, lo, mid)
             ELSE BisectLoop(a, x, mid + 1, hi)
    ELSE lo
Bisect(a, x) == BisectLoop(a, x, 0, Len(a))

\* the loop of add_node from index i on
RECURSIVE AddLoop(_, _, _, _, _)
AddLoop(h, hr, sk, node, i) ==
    IF i >= VirtualNodes THEN [hr |-> hr, sk |-> sk]
    ELSE LET hv == GetHash(h, VirtualNodeName(node, i))
         IN  AddLoop(h, DictSet(hr, hv, node), Append(sk, hv), node, i + 1)

\* add_node(node): the loop, then sorted_keys.sort()
AddNodeOp(h, hr, sk, node) ==
    LET r == AddLoop(h, hr, sk, node, 0)
    IN  [hr |-> r.hr, sk |-> Sorted(r.sk)]

\* the loop of remove_node from index i on
RECURSIVE RemoveLoop(_, _, _, _, _)
RemoveLoop(h, hr, sk, node, i) ==
    IF i >= VirtualNodes THEN [hr |-> hr, sk |-> sk]
    ELSE LET hv == GetHash(h, VirtualNodeName(node, i))
         IN  IF hv \in DOMAIN hr
             THEN RemoveLoop(h, DictDel(hr, hv), ListRemove(sk, hv), node, i + 1)
             ELSE RemoveLoop(h, hr, sk, node, i + 1)

\* a remove_node that empties the ring
RemoveEveryNode(h, hr, sk, node) == [hr |-> EmptyDict, sk |-> <<>>]
\* remove_node(node)
RemoveNodeOp(h, hr, sk, node) == RemoveLoop(h, hr, sk, node, 0)

\* get_node(key): the node, or the exception it raises
GetNode(h, hr, sk, key) ==
    IF DOMAIN hr = {}
    THEN [ok |-> FALSE, node |-> "EmptyRing"]
    ELSE LET key_hash == GetHash(h, key)
             index == Bisect(sk, key_hash)
             idx == IF index >= Len(sk) THEN 0 ELSE index
         IN  IF sk[idx + 1] \in DOMAIN hr
             THEN [ok |-> TRUE, node |-> hr[sk[idx + 1]]]
             ELSE [ok |-> FALSE, node |-> "KeyError"]

\* ConsistentHash(nodes): empty ring, then add_node for each node in order
RECURSIVE RingOf(_, _, _, _)
RingOf(h, hr, sk, nodes) ==
    IF nodes = <<>> THEN [hr |-> hr, sk |-> sk]
    ELSE LET r == AddNodeOp(h, hr, sk, Head(nodes))
         IN  RingOf(h, r.hr, r.sk, Tail(nodes))
ConsistentHashInit(h, nodes) == RingOf(h, EmptyDict, <<>>, nodes)

NoLookup == [op |-> "none", arg |-> "", ok |-> TRUE, node |-> ""]

\* --------------------------------------------------- VisitCounterService
\* a dict page -> count in insertion order: a sequence of [page, count]
BufHas(buf, p) == \E i \in 1..Len(buf) : buf[i].page = p
\* a lookup of the buffer that is never made
BufGetZero(buf, p) == 0
\* buf.get(p, 0)
BufGet(buf, p) ==
    IF BufHas(buf, p)
    THEN LET i == CHOOSE j \in 1..Len(buf) : buf[j].page = p IN buf[i].count
    ELSE 0
\* buf[p] = c in place of buf[p] += c
BufAddOverwrite(buf, p, c) ==
    IF BufHas(buf, p)
    THEN [i \in 1..Len(buf) |->
            IF buf[i].page = p THEN [page |-> p, count |-> c] ELSE buf[i]]
    ELSE Append(buf, [page |-> p, count |-> c])
\* if p not in buf: buf[p] = 0
\* buf[p] += c
BufAdd(buf, p, c) ==
    IF BufHas(buf, p)
    THEN [i \in 1..Len(buf) |->
            IF buf[i].page = p THEN [page |-> p, count |-> buf[i].count + c] ELSE buf[i]]
    ELSE Append(buf, [page |-> p, count |-> c])

\* int(redis_client.get(f"page:{page_id}") or 0)
RedisGet(st, node, p) == st[node][p]

\* a pipeline of SET in place of INCRBY
RECURSIVE PipelineSets(_, _, _)
PipelineSets(st, node, snap) ==
    IF snap = <<>> THEN st
    ELSE PipelineSets(
            [st EXCEPT ![node][Head(snap).page] = Head(snap).count],
            node, Tail(snap))
\* a pipeline that sends the first command only
PipelineFirstOnly(st, node, snap) ==
    IF snap = <<>> THEN st
    ELSE [st EXCEPT ![node][Head(snap).page] = @ + Head(snap).count]
\* pipeline.incrby(...) for every entry of the snapshot, then execute()
RECURSIVE PipelineExecute(_, _, _)
PipelineExecute(st, node, snap) ==
    IF snap = <<>> THEN st
    ELSE PipelineExecute(
            [st EXCEPT ![node][Head(snap).page] = @ + Head(snap).count],
            node, Tail(snap))

\* a flush that leaves the cache as it is
RefreshSkipped(c, st, node, snap, gets, failAt, t) == [cache |-> c, raised |-> FALSE]
\* the cache refresh loop of _flush_buffer over the snapshot; failAt is the
\* ordinal of the GET that raises (0: none does), gets the GETs made so far
RECURSIVE RefreshLoop(_, _, _, _, _, _, _)
RefreshLoop(c, st, node, snap, gets, failAt, t) ==
    IF snap = <<>> THEN [cache |-> c, raised |-> FALSE]
    ELSE LET p == Head(snap).page
         IN  IF p \in DOMAIN c
             THEN IF gets + 1 = failAt
                  THEN [cache |-> c, raised |-> TRUE]
                  ELSE RefreshLoop(
                          [c EXCEPT ![p].count = RedisGet(st, node, p),
                                    ![p].timestamp = t],
                          st, node, Tail(snap), gets + 1, failAt, t)
             ELSE RefreshLoop(c, st, node, Tail(snap), gets, failAt, t)

\* an except branch that drops the snapshot
RestoreDropped(buf, snap) == buf
\* the except branch of _flush_buffer: add the snapshot back into buffer
RECURSIVE RestoreBuffer(_, _)
RestoreBuffer(buf, snap) ==
    IF snap = <<>> THEN buf
    ELSE RestoreBuffer(BufAdd(buf, Head(snap).page, Head(snap).count), Tail(snap))

\* outcome of the store calls of one shard's flush: -1 the pipeline raises,
\* 0 nothing raises, k > 0 the k-th GET of the cache refresh raises
Outcomes == -1 .. Cardinality(Pages)
AllOk == [n \in Nodes |-> 0]

\* an iteration that copies the buffer and does not clear it
FlushNodeNoClear(s, node, outcome, t) ==
    LET buffer == s.buf[node]
    IN  IF buffer = <<>> THEN s
        ELSE LET buffer_to_flush == buffer
                 cleared == buffer
             IN  IF outcome = -1
                 THEN [s EXCEPT !.buf[node] = RestoreBuffer(cleared, buffer_to_flush),
                                !.failed = TRUE]
                 ELSE LET st2 == PipelineExecute(s.store, node, buffer_to_flush)
                          r == RefreshLoop(s.cache, st2, node, buffer_to_flush,
                                           0, outcome, t)
                      IN  IF r.raised
                          THEN [buf |-> [s.buf EXCEPT ![node] =
                                            RestoreBuffer(cleared, buffer_to_flush)],
                                store |-> st2, cache |-> r.cache, failed |-> TRUE]
                          ELSE [buf |-> [s.buf EXCEPT ![node] = cleared],
                                store |-> st2, cache |-> r.cache, failed |-> s.failed]

\* one iteration of the loop of _flush_buffer; s = [buf, store, cache, failed]
FlushNode(s, node, outcome, t) ==
    LET buffer == s.buf[node]
    IN  IF buffer = <<>> THEN s
        ELSE LET buffer_to_flush == buffer
                 cleared == <<>>
             IN  IF outcome = -1
                 THEN [s EXCEPT !.buf[node] = RestoreBuffer(cleared, buffer_to_flush),
                                !.failed = TRUE]
                 ELSE LET st2 == PipelineExecute(s.store, node, buffer_to_flush)
                          r == RefreshLoop(s.cache, st2, node, buffer_to_flush,
                                           0, outcome, t)
                      IN  IF r.raised
                          THEN [buf |-> [s.buf EXCEPT ![node] =
                                            RestoreBuffer(cleared, buffer_to_flush)],
                                store |-> st2, cache |-> r.cache, failed |-> TRUE]
                          ELSE [buf |-> [s.buf EXCEPT ![node] = cleared],
                                store |-> st2, cache |-> r.cache, failed |-> s.failed]

\* a loop that the first failing shard ends (the try around the loop)
RECURSIVE FlushFromAbort(_, _, _, _)
FlushFromAbort(s, nodes, outcomes, t) ==
    IF nodes = <<>> THEN s
    ELSE IF s.buf[Head(nodes)] # <<>> /\ outcomes[Head(nodes)] # 0
         THEN FlushNode(s, Head(nodes), outcomes[Head(nodes)], t)
         ELSE FlushFromAbort(FlushNode(s, Head(nodes), outcomes[Head(nodes)], t),
                             Tail(nodes), outcomes, t)
\* _flush_buffer(): every shard of self._write_buffer in dict order
RECURSIVE FlushFrom(_, _, _, _)
FlushFrom(s, nodes, outcomes, t) ==
    IF nodes = <<>> THEN s
    ELSE FlushFrom(FlushNode(s, Head(nodes), outcomes[Head(nodes)], t),
                   Tail(nodes), outcomes, t)
FlushBuffer(s, outcomes, t) == FlushFrom(s, NodeOrder, outcomes, t)

\* _get_redis_client(page_id): get_node, then self.redis_nodes[node]
GetRedisClient(p) ==
    LET r == GetNode(hashOf, hash_ring, sorted_keys, p)
    IN  IF r.ok /\ r.node \notin Nodes
        THEN [ok |-> FALSE, node |-> "KeyError"]
        ELSE r

\* an except branch that reads self._cache[page_id] without the membership test
FallbackUnguarded(c, p) ==
    IF p \in DOMAIN c
    THEN [visits |-> c[p].count, served_via |-> "in_memory", raised |-> FALSE]
    ELSE [visits |-> 0, served_via |-> "KeyError", raised |-> TRUE]
\* the outer except branch of increment_visit and get_visit_count
Fallback(c, p) ==
    IF p \in DOMAIN c
    THEN [visits |-> c[p].count, served_via |-> "in_memory", raised |-> FALSE]
    ELSE [visits |-> 0, served_via |-> "in_memory", raised |-> FALSE]

\* a cache that never answers
CacheFreshNever(c, p, t) == FALSE
\* a cache test without the ttl
CacheFreshNoTtl(c, p, t) == p \in DOMAIN c
\* the cache test of get_visit_count: an entry younger than cache_ttl
CacheFresh(c, p, t) == p \in DOMAIN c /\ t - c[p].timestamp < cache_ttl

\* what is remembered of a get_visit_count(p): the visits it returned, the
\* timestamp of p's cache entry when it returned, and whether a flush has
\* rewritten that entry since
NoGet == [visits |-> -1, ts |-> -1, rewritten |-> FALSE, repeat |-> FALSE]
\* a get_visit_count(p) made now falls in the ttl window of the remembered one
InWindow(p) == lastGet[p] # NoGet /\ now - lastGet[p].ts < cache_ttl
\* lastGet after a call that is not a get_visit_count and leaves cache c2
TouchedBy(c2) ==
    [q \in Pages |->
        IF lastGet[q] # NoGet /\ q \in DOMAIN cache /\ c2[q] # cache[q]
        THEN [lastGet[q] EXCEPT !.rewritten = TRUE]
        ELSE lastGet[q]]
\* lastGet after get_visit_count(p) returned v and left cache c2
Remember(p, v, c2) ==
    [q \in Pages |->
        IF q # p THEN TouchedBy(c2)[q]
        ELSE IF p \in DOMAIN c2
             THEN [visits |-> v, ts |-> c2[p].timestamp, rewritten |-> FALSE,
                   repeat |-> InWindow(p)]
             ELSE NoGet]

Current == [buf |-> write_buffer, store |-> store, cache |-> cache, failed |-> failed]

\* record of a call: its arguments, the locals it computed and what it returned
Call(op, p, res, node, hit, flushed, getFailed) ==
    [n |-> last.n + 1, op |-> op, page |-> p, visits |-> res.visits,
     served_via |-> res.served_via, raised |-> res.raised, node |-> node,
     hit |-> hit, flushed |-> flushed, getFailed |-> getFailed]
NoCall ==
    [n |-> 0, op |-> "none", page |-> "", visits |-> 0, served_via |-> "",
     raised |-> FALSE, node |-> "", hit |-> FALSE, flushed |-> FALSE,
     getFailed |-> FALSE]

\* a flush check that is always true
FlushDueAlways(t) == TRUE
\* a flush check that needs more than flush_interval
FlushDueStrict(t) == t - last_flush_time > flush_interval
\* the flush check: current_time - self.last_flush_time >= self.flush_interval
FlushDue(t) == t - last_flush_time >= flush_interval

\* increment_visit(page_id)
IncrementVisit(p, getFails, outcomes) ==
    /\ last.n < MaxCalls
    /\ LET current_time == now
           due == FlushDue(current_time)
           s1 == IF due THEN FlushBuffer(Current, outcomes, now) ELSE Current
           rc == GetRedisClient(p)
       IN  /\ last_flush_time' = IF due THEN current_time ELSE last_flush_time
           /\ store' = s1.store
           /\ issued' = [issued EXCEPT ![p] = @ + 1]
           /\ IF ~rc.ok
              THEN /\ write_buffer' = s1.buf
                   /\ cache' = s1.cache
                   /\ failed' = s1.failed
                   /\ last' = Call("increment", p, Fallback(s1.cache, p), "",
                                   FALSE, due, FALSE)
              ELSE LET node == rc.node
                       buf2 == BufAdd(s1.buf[node], p, 1)
                       redis_count == IF getFails THEN 0 ELSE RedisGet(s1.store, node, p)
                       buffer_count == BufGet(buf2, p)
                       total_count == redis_count + buffer_count
                   IN  /\ write_buffer' = [s1.buf EXCEPT ![node] = buf2]
                       /\ cache' = DictSet(s1.cache, p,
                                      [count |-> total_count, timestamp |-> now,
                                       node |-> node])
                       /\ failed' = (s1.failed \/ getFails)
                       /\ last' = Call("increment", p,
                                       [visits |-> total_count, served_via |-> node,
                                        raised |-> FALSE],
                                       node, FALSE, due, getFails)
    /\ lastGet' = [TouchedBy(cache') EXCEPT ![p] = NoGet]
    /\ UNCHANGED <<hashOf, hash_ring, sorted_keys, lookup, now, registered>>

\* get_visit_count(page_id)
GetVisitCount(p, getFails, outcomes) ==
    /\ last.n < MaxCalls
    /\ IF CacheFresh(cache, p, now)
       THEN /\ last' = Call("get", p,
                            [visits |-> cache[p].count, served_via |-> "in_memory",
                             raised |-> FALSE],
                            "", TRUE, FALSE, FALSE)
            /\ UNCHANGED <<store, cache, write_buffer, last_flush_time, failed>>
       ELSE LET rc == GetRedisClient(p)
            IN  IF ~rc.ok
                THEN /\ last' = Call("get", p, Fallback(cache, p), "",
                                     FALSE, FALSE, FALSE)
                     /\ UNCHANGED <<store, cache, write_buffer, last_flush_time,
                                    failed>>
                ELSE LET node == rc.node
                         current_time == now
                         due == FlushDue(current_time)
                         s1 == IF due THEN FlushBuffer(Current, outcomes, now)
                               ELSE Current
                         redis_count == IF getFails THEN 0
                                        ELSE RedisGet(s1.store, node, p)
                         buffer_count == BufGet(s1.buf[node], p)
                         total_count == redis_count + buffer_count
                     IN  /\ last_flush_time' =
                                IF due THEN current_time ELSE last_flush_time
                         /\ store' = s1.store
                         /\ write_buffer' = s1.buf
                         /\ failed' = (s1.failed \/ getFails)
                         /\ IF getFails /\ p \in DOMAIN s1.cache
                            THEN /\ cache' = s1.cache
                                 /\ last' = Call("get", p,
                                        [visits |-> s1.cache[p].count,
                                         served_via |-> "in_memory",
                                         raised |-> FALSE],
                                        node, FALSE, due, TRUE)
                            ELSE /\ cache' = DictSet(s1.cache, p,
                                        [count |-> total_count, timestamp |-> now,
                                         node |-> node])
                                 /\ last' = Call("get", p,
                                        [visits |-> total_count, served_via |-> node,
                                         raised |-> FALSE],
                                        node, FALSE, due, getFails)
    /\ lastGet' = Remember(p, last'.visits, cache')
    /\ UNCHANGED <<hashOf, hash_ring, sorted_keys, lookup, now, issued, registered>>

\* a direct call of _flush_buffer() (a forced flush)
ForcedFlush(outcomes) ==
    /\ last.n < MaxCalls
    /\ LET s1 == FlushBuffer(Current, outcomes, now)
       IN  /\ store' = s1.store
           /\ cache' = s1.cache
           /\ write_buffer' = s1.buf
           /\ failed' = s1.failed
           /\ last' = Call("flush", "", [visits |-> 0, served_via |-> "",
                                         raised |-> FALSE],
                           "", FALSE, TRUE, FALSE)
    /\ lastGet' = TouchedBy(cache')
    /\ UNCHANGED <<hashOf, hash_ring, sorted_keys, lookup, now, issued,
                   last_flush_time, registered>>

\* time passes between calls
Tick(t) ==
    /\ t > now
    /\ now' = t
    /\ UNCHANGED <<hashOf, hash_ring, sorted_keys, lookup, store, cache,
                   write_buffer, last_flush_time, last, issued, failed, lastGet,
                   registered>>

\* -------------------------------------------------------- ring operations
\* add_node(node) called on the ring
AddNode(node) ==
    /\ Len(sorted_keys) < MaxAdds * VirtualNodes
    /\ LET r == AddNodeOp(hashOf, hash_ring, sorted_keys, node)
       IN  /\ hash_ring' = r.hr
           /\ sorted_keys' = r.sk
    /\ lookup' = [op |-> "add_node", arg |-> node, ok |-> TRUE, node |-> ""]
    /\ registered' = registered \cup {node}
    /\ UNCHANGED <<hashOf, now>>
    /\ UNCHANGED svcVars

\* remove_node(node) called on the ring
RemoveNode(node) ==
    /\ LET r == RemoveNodeOp(hashOf, hash_ring, sorted_keys, node)
       IN  /\ hash_ring' = r.hr
           /\ sorted_keys' = r.sk
    /\ lookup' = [op |-> "remove_node", arg |-> node, ok |-> TRUE, node |-> ""]
    /\ registered' = registered \ {node}
    /\ UNCHANGED <<hashOf, now>>
    /\ UNCHANGED svcVars

\* get_node(key) called on the ring
Lookup(key) ==
    /\ LET r == GetNode(hashOf, hash_ring, sorted_keys, key)
       IN  lookup' = [op |-> "get_node", arg |-> key, ok |-> r.ok, node |-> r.node]
    /\ UNCHANGED <<hashOf, hash_ring, sorted_keys, now, registered>>
    /\ UNCHANGED svcVars

\* ------------------------------------------------------------ specifications
\* the hash values of the virtual nodes in the runs of the service: the two
\* shards alternate round the ring
NodeIndex(n) == CHOOSE i \in 1..Len(NodeOrder) : NodeOrder[i] = n
ServiceHashes ==
    {h \in [Names -> Hashes] :
        /\ \A n \in Nodes, i \in 0 .. (VirtualNodes - 1) :
              h[VirtualNodeName(n, i)] = (2 * i + NodeIndex(n) - 1) % HashSpace
        /\ h["home"] = 1
        /\ h["about"] \in {1, 2}}

ServiceFresh ==
    /\ store = [n \in Nodes |-> [p \in Pages |-> 0]]
    /\ cache = EmptyDict
    /\ write_buffer = [n \in Nodes |-> <<>>]
    /\ last_flush_time = 0
    /\ now = 0
    /\ last = NoCall
    /\ issued = [p \in Pages |-> 0]
    /\ failed = FALSE
    /\ lastGet = [p \in Pages |-> NoGet]

\* VisitCounterService(): the ring of the two shards, empty cache and buffers
Init ==
    /\ hashOf \in ServiceHashes
    /\ LET r == ConsistentHashInit(hashOf, NodeOrder)
       IN  hash_ring = r.hr /\ sorted_keys = r.sk
    /\ lookup = NoLookup
    /\ registered = Nodes
    /\ ServiceFresh

\* the outcomes a flush made now can meet: a shard whose buffer is empty is
\* skipped, and a shard's cache refresh makes one GET per buffered page
FlushOutcomes ==
    {o \in [Nodes -> Outcomes] : \A n \in Nodes : o[n] <= Len(write_buffer[n])}
\* the outcomes of the flush of a call that checks the flush interval
DueOutcomes ==
    IF now - last_flush_time >= flush_interval THEN FlushOutcomes ELSE {AllOk}

Next ==
    \/ \E p \in Pages, g \in BOOLEAN, o \in DueOutcomes : IncrementVisit(p, g, o)
    \/ \E p \in Pages, g \in BOOLEAN, o \in DueOutcomes : GetVisitCount(p, g, o)
    \/ \E o \in FlushOutcomes : ForcedFlush(o)
    \/ \E t \in TimePoints : Tick(t)

Spec == Init /\ [][Next]_vars

\* ConsistentHash([]) under any hash function, then add_node / remove_node /
\* get_node in any order
RingInit ==
    /\ hashOf \in {h \in [Names -> Hashes] : \A p \in Pages : h[p] = h["home"]}
    /\ hash_ring = EmptyDict
    /\ sorted_keys = <<>>
    /\ lookup = NoLookup
    /\ registered = {}
    /\ ServiceFresh

RingNext ==
    \/ \E n \in Nodes : AddNode(n)
    \/ \E n \in Nodes : RemoveNode(n)
    \/ \E k \in RingKeys : Lookup(k)

RingSpec == RingInit /\ [][RingNext]_vars

\* the service while its ring self.consistent_hash is also being changed
TopologyNext ==
    \/ last.n < MaxTopologyCalls /\ Next
    \/ \E n \in Nodes : AddNode(n)
    \/ \E n \in Nodes : RemoveNode(n)

TopologySpec == Init /\ [][TopologyNext]_vars

\* the service under requests that keep arriving while time advances by
\* whole flush intervals: increment_visit and get_visit_count are called, with
\* any store failure, until the last time of the run; from then on the stores
\* answer and get_visit_count calls arrive, and no increment is made
LiveTimes == {t \in {flush_interval, 2 * flush_interval, 3 * flush_interval} :
                 t <= MaxLiveTime}
FinalTime == CHOOSE t \in LiveTimes : \A u \in LiveTimes : u <= t
EarlyRequest ==
    /\ now < FinalTime
    /\ last.n < MaxCalls - 1
    /\ \E p \in Pages, g \in BOOLEAN, o \in DueOutcomes :
           IncrementVisit(p, g, o) \/ GetVisitCount(p, g, o)
FinalRequest ==
    /\ now = FinalTime
    /\ \E p \in Pages : GetVisitCount(p, FALSE, AllOk)
LiveTick == \E t \in LiveTimes : Tick(t)

LiveNext ==
    \/ EarlyRequest
    \/ FinalRequest
    \/ LiveTick

LiveSpec ==
    /\ Init
    /\ [][LiveNext]_vars
    /\ WF_vars(LiveTick)
    /\ WF_vars(FinalRequest)

\* ------------------------------------------------------------------ claims
\* the shard the ring maps page p to
ShardOf(p) == GetNode(hashOf, hash_ring, sorted_keys, p).node
\* the persisted total of p on its shard, and p's pending delta there
Persisted(p) == store[ShardOf(p)][p]
Pending(p) == BufGet(write_buffer[ShardOf(p)], p)
\* a step that is a call of the service
IsCall == last'.n # last.n

\* C1: after any number C of increment_visit(p) calls, interleaved in any
\* order with each other and with calls for other pages, a forced flush in a
\* run without store failure leaves the persisted total of p equal to C (and
\* nothing of p on the other shard or in the buffer).
C1_NoLostIncrements ==
    (last.op = "flush" /\ ~failed) =>
        \A p \in Pages :
            /\ Persisted(p) = issued[p]
            /\ Pending(p) = 0
            /\ \A n \in Nodes \ {ShardOf(p)} : store[n][p] = 0
C1_Witness ==
    /\ last.op = "flush"
    /\ ~failed
    /\ issued["home"] = 3
    /\ issued["about"] = 1
    /\ Persisted("home") = 3

\* C2: whatever store failures occur during flushes, persisted total plus
\* pending delta of every page equals the number of increment_visit calls
\* issued for it (no increment lost, none applied twice).
C2_PersistedPlusPendingIsTotal ==
    \A p \in Pages : Persisted(p) + Pending(p) = issued[p]

\* C3: increment_visit and get_visit_count never raise, whatever the store
\* and the ring do: each returns non-negative integer visits and a served_via
\* that is a shard or the in_memory tag.
C3_WellFormedResult ==
    last.op \in {"increment", "get"} =>
        /\ ~last.raised
        /\ last.visits \in Nat
        /\ last.served_via \in Nodes \cup {"in_memory"}
C3_Witness ==
    /\ last.op = "increment"
    /\ DOMAIN hash_ring = {}
    /\ last.served_via = "in_memory"
    /\ last.visits = 1
    /\ ~last.raised

\* C4: in a run without store failure every get_visit_count(p) returns the
\* number of increment_visit(p) calls made so far, from the cache or not,
\* before a flush or after.
C4_ReadReturnsTotal ==
    (last.op = "get" /\ ~failed) => last.visits = issued[last.page]
C4_Witness ==
    /\ last.op = "get"
    /\ ~failed
    /\ ~last.hit
    /\ last.visits = 2
    /\ Persisted(last.page) = 1
    /\ Pending(last.page) = 1

\* a step that is get_visit_count(p), increment_visit(p)
GetStep(p) == IsCall /\ last'.op = "get" /\ last'.page = p
IncStep(p) == IsCall /\ last'.op = "increment" /\ last'.page = p

\* C5 as claimed: a get_visit_count(p) made in the ttl window of an earlier
\* one, with no increment_visit(p) between them, returns the same visits, from
\* the cache, whatever else happened between them.  Stated for the runs in
\* which no flush has applied a delta twice (see C2), so that a violation
\* does not rest on that defect.
C5_SameCountInWindow ==
    [][\A p \in Pages :
        (GetStep(p) /\ InWindow(p) /\ C2_PersistedPlusPendingIsTotal) =>
            /\ last'.visits = lastGet[p].visits
            /\ last'.served_via = "in_memory"]_vars
\* C5 as amended: the second call is answered from the cache, and returns the
\* same visits provided no flush rewrote p's cache entry between the two calls.
C5_SameCountUnlessFlushed ==
    [][\A p \in Pages :
        (GetStep(p) /\ InWindow(p)) =>
            /\ last'.served_via = "in_memory"
            /\ last'.hit
            /\ ~lastGet[p].rewritten => last'.visits = lastGet[p].visits]_vars
C5_Witness ==
    /\ last.op = "get"
    /\ lastGet[last.page].repeat
    /\ last.hit
    /\ failed
    /\ now = 4
    /\ last.visits = 2

\* the result of a get_visit_count(p) step is the count re-derived from p's shard
Rederived(p) ==
    LET n == ShardOf(p)
    IN  /\ last'.served_via = n
        /\ last'.visits = store'[n][p] + BufGet(write_buffer'[n], p)
        /\ cache'[p] = [count |-> last'.visits, timestamp |-> now, node |-> n]
\* p has a cache entry that is at least cache_ttl old
Stale(p) == p \in DOMAIN cache /\ now - cache[p].timestamp >= cache_ttl

\* C6 as claimed: a get_visit_count(p) that finds p's entry at least ttl old
\* returns persisted + pending with served_via the shard and overwrites the
\* entry with that count and the current time.
C6_StaleAlwaysRederived ==
    [][\A p \in Pages : (GetStep(p) /\ Stale(p)) => Rederived(p)]_vars
\* C6 as amended: it does so when the shard's GET answers; when the GET raises
\* it returns the count of p's existing cache entry with served_via in_memory
\* and writes no new entry.
C6_StaleRederivedUnlessGetFails ==
    [][\A p \in Pages :
        (GetStep(p) /\ Stale(p)) =>
            IF last'.getFailed
            THEN /\ last'.served_via = "in_memory"
                 /\ last'.visits = cache'[p].count
                 /\ ~last'.flushed => cache' = cache
            ELSE Rederived(p)]_vars
C6_Witness ==
    /\ last.op = "get"
    /\ last.served_via = ShardOf(last.page)
    /\ ~last.getFailed
    /\ issued[last.page] = 2
    /\ now >= cache_ttl
    /\ cache[last.page].timestamp = now
    /\ last.visits = 2

\* the state the flush-interval check of a call leaves, under outcomes o
AfterDueFlush(o) ==
    IF now - last_flush_time >= flush_interval
    THEN FlushBuffer(Current, o, now) ELSE Current
\* the step leaves p's pending delta on shard n one above what the flush
\* check of the call left
AddsOne(p, n) ==
    \E o \in DueOutcomes :
        /\ BufGet(write_buffer'[n], p) = BufGet(AfterDueFlush(o).buf[n], p) + 1
        /\ \A q \in Pages \ {p} :
              BufGet(write_buffer'[n], q) = BufGet(AfterDueFlush(o).buf[n], q)
        /\ \A m \in Nodes \ {n} : write_buffer'[m] = AfterDueFlush(o).buf[m]

\* C7 as claimed: increment_visit(p) adds 1 to p's pending delta on the shard
\* the ring maps p to, returns persisted + pending with served_via that shard,
\* overwrites p's cache entry with that total, and names the shard that p's
\* earlier calls named.
C7_IncrementReturnsTotal ==
    [][\A p \in Pages :
        IncStep(p) =>
            LET n == ShardOf(p)
            IN  /\ AddsOne(p, n)
                /\ last'.served_via = n
                /\ last'.visits = store'[n][p] + BufGet(write_buffer'[n], p)
                /\ cache'[p] = [count |-> last'.visits, timestamp |-> now, node |-> n]
                /\ p \in DOMAIN cache => cache[p].node = n]_vars
\* C7 as amended: the visits returned are persisted + pending when the
\* shard's GET answers, and the pending delta alone when it raises.
C7_IncrementReturnsTotalIfGetOk ==
    [][\A p \in Pages :
        IncStep(p) =>
            LET n == ShardOf(p)
            IN  /\ AddsOne(p, n)
                /\ last'.served_via = n
                /\ last'.visits =
                      (IF last'.getFailed THEN 0 ELSE store'[n][p])
                      + BufGet(write_buffer'[n], p)
                /\ cache'[p] = [count |-> last'.visits, timestamp |-> now, node |-> n]
                /\ p \in DOMAIN cache => cache[p].node = n]_vars
C7_Witness ==
    /\ last.op = "increment"
    /\ ~failed
    /\ last.served_via = ShardOf(last.page)
    /\ Persisted(last.page) = 1
    /\ Pending(last.page) = 2
    /\ last.visits = 3
    /\ cache[last.page].count = 3

\* C8: an increment_visit(p) whose GET raises still adds 1 to p's pending
\* delta and returns the pending delta alone (persisted counted as 0) with
\* served_via the shard; and a flush that empties a shard's buffer has added
\* every pending delta of that buffer to the shard's persisted counts.
C8_GetFailureKeepsIncrement ==
    [][/\ \A p \in Pages :
            (IncStep(p) /\ last'.getFailed) =>
                /\ AddsOne(p, ShardOf(p))
                /\ last'.visits = BufGet(write_buffer'[ShardOf(p)], p)
                /\ last'.visits >= 1
                /\ last'.served_via = ShardOf(p)
       /\ \A n \in Nodes :
            (IsCall /\ last'.op = "flush" /\ write_buffer'[n] = <<>>) =>
                \A p \in Pages : store'[n][p] = store[n][p] + BufGet(write_buffer[n], p)]_vars
C8_Witness ==
    /\ last.op = "increment"
    /\ last.getFailed
    /\ Persisted(last.page) = 1
    /\ Pending(last.page) = 1
    /\ last.visits = 1

\* the hash values on the ring, and the least of a set of them
EntrySet == {sorted_keys[i] : i \in 1..Len(sorted_keys)}
Least(S) == CHOOSE x \in S : \A y \in S : x <= y
\* the positions of sorted_keys that hash_ring gives to node n
Entries(n) ==
    {i \in 1..Len(sorted_keys) :
        sorted_keys[i] \in DOMAIN hash_ring /\ hash_ring[sorted_keys[i]] = n}
\* every registered node has VirtualNodes entries and the ring holds no others
ExactEntries ==
    /\ \A n \in Nodes :
          Cardinality(Entries(n)) = IF n \in registered THEN VirtualNodes ELSE 0
    /\ Len(sorted_keys) = VirtualNodes * Cardinality(registered)
\* the hash values hash_ring gives to node n
Owned(n) == {x \in DOMAIN hash_ring : hash_ring[x] = n}
\* md5 gives distinct virtual nodes distinct values
NoCollision == \A a, b \in VirtualNodeNames : a # b => hashOf[a] # hashOf[b]

\* C9: after any add_node / remove_node calls the ring (hash_ring) holds
\* exactly V entries for every registered node and none for any other, and
\* get_node returns a registered node when a node is registered and signals
\* the empty ring when none is.  Stated here for hash functions without
\* collisions, so that a violation rests on the calls alone.
C9_ExactlyVEntriesPerNode ==
    NoCollision =>
        /\ \A n \in Nodes :
              Cardinality(Owned(n)) = IF n \in registered THEN VirtualNodes ELSE 0
        /\ \A k \in RingKeys :
              LET r == GetNode(hashOf, hash_ring, sorted_keys, k)
              IN  IF registered = {}
                  THEN ~r.ok /\ r.node = "EmptyRing"
                  ELSE r.ok /\ r.node \in registered

\* the owner hash_ring records for hash value x, as get_node reads it
Owner(x) ==
    IF x \in DOMAIN hash_ring
    THEN [ok |-> TRUE, node |-> hash_ring[x]]
    ELSE [ok |-> FALSE, node |-> "KeyError"]
\* the least ring entry >= x (> x), the least entry of the ring when none is
SuccessorGE(x) ==
    IF \E y \in EntrySet : y >= x
    THEN Least({y \in EntrySet : y >= x}) ELSE Least(EntrySet)
SuccessorGT(x) ==
    IF \E y \in EntrySet : y > x
    THEN Least({y \in EntrySet : y > x}) ELSE Least(EntrySet)

\* C10 as claimed: get_node(key) returns the owner of the least ring entry
\* whose hash is >= the key's hash, wrapping to the least entry of the ring.
\* Stated for the rings that hold exactly V entries per registered node (see
\* C9), so that a violation does not rest on that defect.
C10_SuccessorAtOrAfter ==
    \A k \in RingKeys :
        (DOMAIN hash_ring # {} /\ NoCollision /\ ExactEntries) =>
            GetNode(hashOf, hash_ring, sorted_keys, k) = Owner(SuccessorGE(hashOf[k]))
\* C10 as amended: get_node(key) reads the owner of the least ring entry whose
\* hash is strictly greater than the key's hash, wrapping to the least entry
\* when the key's hash is >= every entry; a key whose hash equals an entry's
\* goes to the next entry.  (An entry that remove_node left in sorted_keys
\* without an owner makes the read raise KeyError.)
C10_SuccessorStrictlyAfter ==
    \A k \in RingKeys :
        DOMAIN hash_ring # {} =>
            GetNode(hashOf, hash_ring, sorted_keys, k) = Owner(SuccessorGT(hashOf[k]))
C10_Witness ==
    /\ lookup.op = "get_node"
    /\ lookup.ok
    /\ NoCollision
    /\ registered = Nodes
    /\ ExactEntries
    /\ hashOf[lookup.arg] \in EntrySet
    /\ \A y \in EntrySet : y <= hashOf[lookup.arg]
    /\ lookup.node = hash_ring[Least(EntrySet)]
    /\ lookup.node # hash_ring[hashOf[lookup.arg]]

\* what get_node(k) gives on the ring as it is: a node or the exception raised
Resolve(k) == GetNode(hashOf, hash_ring, sorted_keys, k)
\* a step that is remove_node(n), add_node(n)
RemoveStep(n) == lookup'.op = "remove_node" /\ lookup'.arg = n /\ ringVars' # ringVars
AddStep(n) == lookup'.op = "add_node" /\ lookup'.arg = n /\ ringVars' # ringVars

\* the owner get_node gives key k: a node, or none when get_node raises
OwnerOf(k) == IF Resolve(k).ok THEN Resolve(k).node ELSE "none"

RegisteredIn(order) == SelectSeq(order, LAMBDA n : n \in registered)
Reverse(s) == [i \in 1..Len(s) |-> s[Len(s) + 1 - i]]
\* get_node(k) on the ring ConsistentHash(nodes) builds
BuiltResolve(nodes, k) ==
    LET r == ConsistentHashInit(hashOf, nodes)
    IN  GetNode(hashOf, r.hr, r.sk, k)

\* C12: get_node is deterministic.  The result of the last get_node(key) is
\* what get_node(key) gives as long as no add_node or remove_node has been
\* called since; the rings built from the nodes in either insertion order map
\* every key to the same node; and a ring that add_node / remove_node calls
\* have brought to exactly V entries per registered node maps every key as
\* the rings built from the registered nodes do.  Stated for hash functions
\* that give distinct virtual nodes distinct values.
C12_GetNodeDeterministic ==
    /\ lookup.op = "get_node" =>
            [ok |-> lookup.ok, node |-> lookup.node] = Resolve(lookup.arg)
    /\ NoCollision =>
            \A k \in RingKeys :
                BuiltResolve(NodeOrder, k) = BuiltResolve(Reverse(NodeOrder), k)
    /\ (NoCollision /\ ExactEntries) =>
            \A k \in RingKeys :
                /\ Resolve(k) = BuiltResolve(RegisteredIn(NodeOrder), k)
                /\ Resolve(k) = BuiltResolve(RegisteredIn(Reverse(NodeOrder)), k)
C12_Witness ==
    /\ lookup.op = "get_node"
    /\ lookup.arg = "home"
    /\ lookup.ok
    /\ lookup.node = "redis_7071"
    /\ NoCollision
    /\ registered = Nodes
    /\ ExactEntries
    /\ hash_ring[Least(EntrySet)] = "redis_7071"

\* a step that is a call in which _flush_buffer runs
FlushStep == IsCall /\ last'.flushed
\* for a flush step: the snapshot the flush takes of p's pending delta on
\* shard n, what the step adds to p's persisted count there, the increment
\* the call itself records for p on n after the flush, and what the step
\* leaves pending for p on n besides that increment
Snapshot(n, p) == BufGet(write_buffer[n], p)
Sent(n, p) == store'[n][p] - store[n][p]
Later(n, p) == IF IncStep(p) /\ last'.node = n THEN 1 ELSE 0
Merged(n, p) == BufGet(write_buffer'[n], p) - Later(n, p)
\* the store calls of the flush of the step meet outcomes o: the stores and
\* the buffers are as _flush_buffer leaves them under o (the buffers are
\* compared before the increment of the call itself)
FlushCall(o) ==
    LET s1 == FlushBuffer(Current, o, now)
    IN  /\ store' = s1.store
        /\ \A n \in Nodes, p \in Pages : Merged(n, p) = BufGet(s1.buf[n], p)

RequestStep == IsCall /\ last'.op \in {"increment", "get"}
\* the flush interval has elapsed at the time of the step
Elapsed == now - last_flush_time >= flush_interval

\* C14: of the callers of increment_visit / get_visit_count that find the
\* flush interval elapsed, one performs the flush: the first to reach the
\* check runs _flush_buffer and leaves last_flush_time at its own time, so
\* that the interval is no longer elapsed for the callers that follow; a
\* caller that finds the interval not elapsed runs no flush and sends nothing
\* to the stores.
C14_OneCallerFlushes ==
    [][RequestStep =>
        /\ (Elapsed /\ ~last'.hit) => last'.flushed
        /\ last'.flushed =>
              /\ Elapsed
              /\ \E o \in FlushOutcomes : FlushCall(o)
              /\ last_flush_time' = now
              /\ ~(now - last_flush_time' >= flush_interval)
        /\ ~Elapsed =>
              /\ ~last'.flushed
              /\ store' = store
              /\ last_flush_time' = last_flush_time]_vars
C14_Witness ==
    /\ last.op = "increment"
    /\ ~last.flushed
    /\ now = flush_interval
    /\ last_flush_time = now
    /\ ~failed
    /\ issued[last.page] = 2
    /\ store[last.node][last.page] = 1
    /\ BufGet(write_buffer[last.node], last.page) = 1

\* C15: when the batched INCRBY of shard n raises, the deltas of the snapshot
\* are added back to n's pending mapping and summed with the increment that
\* arrives afterwards, so that each page's pending delta is its delta before
\* the flush plus the later increment; nothing is added to n's store; the
\* cache entries of the snapshot's pages are left as they were (the page of
\* the call itself gets the entry the call writes); and the call returns
\* normally, an increment_visit with served_via its shard.
C15_FailedBatchMergedBack ==
    [][FlushStep =>
        \A o \in FlushOutcomes :
            FlushCall(o) =>
                \A n \in Nodes :
                    (write_buffer[n] # <<>> /\ o[n] = -1) =>
                        /\ store'[n] = store[n]
                        /\ \A p \in Pages :
                              /\ BufGet(write_buffer'[n], p) = Snapshot(n, p) + Later(n, p)
                              /\ (Snapshot(n, p) > 0 /\ p # last'.page) =>
                                    (p \in DOMAIN cache /\ cache'[p] = cache[p])
                        /\ ~last'.raised
                        /\ last'.op = "increment" => last'.served_via = last'.node]_vars
C15_Witness ==
    /\ last.op = "increment"
    /\ last.page = "home"
    /\ last.flushed
    /\ ~last.getFailed
    /\ now = flush_interval
    /\ \A n \in Nodes, p \in Pages : store[n][p] = 0
    /\ issued = [p \in Pages |-> IF p = "home" THEN 2 ELSE 1]
    /\ BufGet(write_buffer[last.node], "home") = 2
    /\ BufGet(write_buffer[last.node], "about") = 1
    /\ cache["about"].timestamp = 0
    /\ last.visits = 2

\* C16: when the flush of shard n succeeds (neither the batch nor the cache
\* refresh raises), every page p of the snapshot has no pending delta left
\* besides the increment recorded after the flush, its persisted count has
\* grown by exactly its snapshot delta, and its cache entry holds the new
\* persisted count, with the timestamp of the flush; a page that is not in
\* the snapshot keeps its persisted count.  For the page of the calling
\* increment_visit the entry is the one that call then writes: the persisted
\* count (0 if its GET raises) plus its increment.
C16_SuccessfulFlushApplied ==
    [][FlushStep =>
        \A o \in FlushOutcomes :
            FlushCall(o) =>
                \A n \in Nodes, p \in Pages :
                    (write_buffer[n] # <<>> /\ o[n] = 0) =>
                        IF Snapshot(n, p) > 0
                        THEN /\ BufGet(write_buffer'[n], p) = Later(n, p)
                             /\ store'[n][p] = store[n][p] + Snapshot(n, p)
                             /\ p \in DOMAIN cache
                             /\ cache'[p].timestamp = now
                             /\ cache'[p].node = n
                             /\ cache'[p].count =
                                   (IF IncStep(p) /\ last'.getFailed
                                    THEN 0 ELSE store'[n][p]) + Later(n, p)
                        ELSE store'[n][p] = store[n][p]]_vars
C16_Witness ==
    /\ last.op = "flush"
    /\ ~failed
    /\ now = 4
    /\ \A n \in Nodes : write_buffer[n] = <<>>
    /\ issued["home"] = 2
    /\ Persisted("home") = 2
    /\ cache["home"] = [count |-> 2, timestamp |-> 4, node |-> ShardOf("home")]
    /\ issued["about"] = 1
    /\ ShardOf("about") # ShardOf("home")
    /\ cache["about"].timestamp = 4

\* C17: in one run of _flush_buffer a failure on shard m (its batch, or its
\* cache refresh, raises) does not keep the deltas of another shard n from
\* being applied: if n's batch does not raise, every pending delta of n is
\* added to n's store in that same run, whether n comes before m or after it
\* in the loop, and the call returns normally.
C17_ShardFailureIsolated ==
    [][FlushStep =>
        \A o \in FlushOutcomes :
            FlushCall(o) =>
                \A n \in Nodes, m \in Nodes :
                    (/\ m # n
                     /\ write_buffer[m] # <<>> /\ o[m] # 0
                     /\ write_buffer[n] # <<>> /\ o[n] >= 0) =>
                        /\ \A p \in Pages :
                              store'[n][p] = store[n][p] + Snapshot(n, p)
                        /\ o[n] = 0 =>
                              \A p \in Pages : BufGet(write_buffer'[n], p) = Later(n, p)
                        /\ ~last'.raised]_vars
C17_Witness ==
    /\ last.op = "flush"
    /\ failed
    /\ issued = [p \in Pages |-> 1]
    /\ ShardOf("home") = NodeOrder[1]
    /\ ShardOf("about") = NodeOrder[2]
    /\ store[NodeOrder[1]]["home"] = 0
    /\ BufGet(write_buffer[NodeOrder[1]], "home") = 1
    /\ store[NodeOrder[2]]["about"] = 1
    /\ write_buffer[NodeOrder[2]] = <<>>

\* every pending delta has been applied and nothing issued is missing
AllApplied == \A p \in Pages : Pending(p) = 0 /\ Persisted(p) >= issued[p]
\* the persisted total of every page is its true total
AllExact == \A p \in Pages : Persisted(p) = issued[p]

\* the retry by itself: under the same fairness every pending delta, those
\* merged back by a failed flush included, is eventually sent to its store,
\* and no page is left with a pending delta or with less than its true total
PendingEventuallyApplied == <>[]AllApplied

\* C18: when requests that reach the flush check keep arriving, time keeps
\* advancing past the flush interval and the stores stop failing, every
\* pending delta, those merged back by a failed flush included, is eventually
\* applied to its store by a later flush, so that the persisted total of
\* every page reaches its true total (and stays there once the increments
\* have stopped).
C18_PersistedReachesTrueTotal == <>[](AllApplied /\ AllExact)

\* p has a cache entry younger than cache_ttl
Fresh(p) == p \in DOMAIN cache /\ ~Stale(p)

\* C19: increment_visit, and a get_visit_count that is not answered from a
\* fresh cache entry, run _flush_buffer exactly when now - last_flush_time >=
\* flush_interval; after the flush last_flush_time is the time of the call,
\* whether the flush of every shard succeeded or some failed; a call that
\* finds the interval not elapsed runs no flush, so that nothing is sent to the
\* stores and no pending delta, merged back or not, leaves the buffers before
\* a whole flush_interval has passed again.
C19_FlushExactlyWhenElapsed ==
    [][RequestStep =>
        /\ last'.flushed <=>
              (Elapsed /\ (last'.op = "increment" \/ ~Fresh(last'.page)))
        /\ last'.flushed =>
              \A o \in FlushOutcomes : FlushCall(o) => last_flush_time' = now
        /\ last_flush_time' = IF last'.flushed THEN now ELSE last_flush_time
        /\ ~Elapsed =>
              /\ store' = store
              /\ \A n \in Nodes, p \in Pages :
                    BufGet(write_buffer'[n], p) >= BufGet(write_buffer[n], p)]_vars
C19_Witness ==
    /\ last.op = "get"
    /\ ~last.hit
    /\ ~last.flushed
    /\ now = flush_interval
    /\ last_flush_time = now
    /\ \A n \in Nodes, p \in Pages : store[n][p] = 0
    /\ issued["home"] = 2
    /\ Pending("home") = 2

\* C20: a get_visit_count(p) that finds a fresh cache entry for p returns the
\* entry's count with served_via in_memory and changes nothing: the write
\* buffers, every cache entry (p's timestamp included), last_flush_time and
\* the stores stay as they are, and no flush runs, even when the flush
\* interval has elapsed and deltas are pending.
C20_FreshReadChangesNothing ==
    [][\A p \in Pages :
        (GetStep(p) /\ Fresh(p)) =>
            /\ UNCHANGED <<store, cache, write_buffer, last_flush_time>>
            /\ ~last'.flushed
            /\ last'.visits = cache[p].count
            /\ last'.served_via = "in_memory"]_vars
C20_Witness ==
    /\ last.op = "get"
    /\ last.hit
    /\ now - last_flush_time >= flush_interval
    /\ \E n \in Nodes : write_buffer[n] # <<>>
    /\ cache[last.page].timestamp = now
    /\ last.visits = 1
====
